---- MODULE Spec2Model ----
(***************************************************************************)
(* Model of src/resource.c of xcb-util-xrm: xcb_xrm_resource_get, the      *)
(* three value accessors and xcb_xrm_resource_free, over an explicit heap  *)
(* of resource containers, value texts and parsed query entries.           *)
(*                                                                         *)
(* A C string is a sequence of one-character strings; a `const char *`     *)
(* argument is a record [null, s] so that NULL and "" are different        *)
(* values.  A heap pointer is an address in 1..MaxAddr, NULL is 0.         *)
(***************************************************************************)
EXTENDS Integers, Sequences, FiniteSets, TLC

VARIABLES
    db,         \* the caller's database: loaded before the calls, never changed
    resources,  \* live xcb_xrm_resource_t containers: address -> value pointer
    texts,      \* live value texts (strdup'ed): address -> character sequence
    entries,    \* live parsed queries (xcb_xrm_entry_t): address -> components
    handles,    \* the caller's output slots: held pointer -> status of its call
    last        \* the last call: arguments, environment, results, event trace

vars == <<db, resources, texts, entries, handles, last>>

(*************************** bounds and constants **************************)

\* Number of heap addresses.
MaxAddr == 6

\* Longest generated value text of the coercion specification.
MaxTextLen == 2

NULL == 0
SUCCESS == 0
FAILURE == 1

\* limits.h of a build whose long is 32 bits wide.
LONG_MAX == 2147483647
LONG_MIN == (-LONG_MAX) - 1

\* The address of the caller's xcb_xrm_resource_t * variable.
OutSlot == 1

(******************************* C strings *********************************)

NullStr == [null |-> TRUE, s |-> <<>>]
CStr(s) == [null |-> FALSE, s |-> s]

\* strlen
strlen(p) == Len(p.s)

Upper == <<"A","B","C","D","E","F","G","H","I","J","K","L","M",
           "N","O","P","Q","R","S","T","U","V","W","X","Y","Z">>
Lower == <<"a","b","c","d","e","f","g","h","i","j","k","l","m",
           "n","o","p","q","r","s","t","u","v","w","x","y","z">>

\* tolower
tolower(c) ==
    IF \E i \in 1..26 : Upper[i] = c
    THEN Lower[CHOOSE i \in 1..26 : Upper[i] = c]
    ELSE c

\* strcasecmp(a, b) == 0, both arguments non-NULL
strcasecmpEq(a, b) ==
    /\ Len(a) = Len(b)
    /\ \A i \in 1..Len(a) : tolower(a[i]) = tolower(b[i])

Digits == <<"0","1","2","3","4","5","6","7","8","9">>
IsDigit(c) == \E i \in 1..10 : Digits[i] = c
DigitVal(c) == (CHOOSE i \in 1..10 : Digits[i] = c) - 1

\* The magnitude of a digit string, or -1 when it exceeds `limit`.
RECURSIVE Magnitude(_, _, _)
Magnitude(ds, acc, limit) ==
    IF ds = <<>> THEN acc
    ELSE LET d == DigitVal(Head(ds)) IN
         IF acc > (limit - d) \div 10 THEN -1
         ELSE Magnitude(Tail(ds), acc * 10 + d, limit)

\* The digit string is exactly LONG_MAX + 1, the magnitude of LONG_MIN.
IsMinMagnitude(ds) ==
    /\ Len(ds) >= 1
    /\ Magnitude(SubSeq(ds, 1, Len(ds) - 1), 0, LONG_MAX) = LONG_MAX \div 10
    /\ DigitVal(ds[Len(ds)]) = (LONG_MAX % 10) + 1

\* str2long(&out, input, 10): a base-10 parse of the entire text.  ok = FALSE
\* is the -FAILURE return (no digits, trailing garbage, out of range, or no
\* text at all).
str2long(input) ==
    IF input.null \/ input.s = <<>> THEN [ok |-> FALSE, val |-> 0]
    ELSE LET neg == Head(input.s) = "-"
             signed == Head(input.s) \in {"-", "+"}
             ds == IF signed THEN Tail(input.s) ELSE input.s
             mag == Magnitude(ds, 0, LONG_MAX)
         IN  IF ds = <<>> \/ \E i \in 1..Len(ds) : ~IsDigit(ds[i])
             THEN [ok |-> FALSE, val |-> 0]
             ELSE IF mag >= 0
             THEN [ok |-> TRUE, val |-> IF neg THEN -mag ELSE mag]
             ELSE IF neg /\ IsMinMagnitude(ds)
             THEN [ok |-> TRUE, val |-> LONG_MIN]
             ELSE [ok |-> FALSE, val |-> 0]

(********************************* heap ************************************)

\* The memory a call works on: the three kinds of live blocks and the trace
\* of the allocator, parser and matcher calls made so far.
Mem(r, t, e) == [resources |-> r, texts |-> t, entries |-> e, events |-> <<>>]

\* One traced call: what was called, the pointer it returned or was given,
\* and for the matcher also the parsed name and class it was given.
Event(ev, a, n, c) == [ev |-> ev, a |-> a, name |-> n, class |-> c]
Log(m, ev, a) == [m EXCEPT !.events = Append(@, Event(ev, a, NULL, NULL))]
LogMatch(m, resource, query_name, query_class) ==
    [m EXCEPT !.events = Append(@, Event("match", resource, query_name, query_class))]

Live(m) == DOMAIN m.resources \cup DOMAIN m.texts \cup DOMAIN m.entries

\* The address malloc hands out next: the lowest free one.
FreshAddr(m) == CHOOSE a \in (1..MaxAddr) \ Live(m) :
                    \A b \in (1..MaxAddr) \ Live(m) : a <= b

Extend(f, a, v) == [x \in DOMAIN f \cup {a} |-> IF x = a THEN v ELSE f[x]]
Remove(f, a) == [x \in DOMAIN f \ {a} |-> f[x]]

\* calloc(1, sizeof(struct xcb_xrm_resource_t)): a zeroed container, or NULL
\* when the allocator has no memory.
calloc(m, ok) ==
    IF ok
    THEN LET a == FreshAddr(m) IN
         [m |-> Log([m EXCEPT !.resources = Extend(@, a, NULL)], "calloc", a),
          ptr |-> a]
    ELSE [m |-> Log(m, "calloc", NULL), ptr |-> NULL]

\* FREE(p) of a value text; free(NULL) does nothing.
FreeText(m, p) ==
    IF p = NULL THEN m
    ELSE Log([m EXCEPT !.texts = Remove(@, p)], "free_text", p)

\* FREE(p) of a resource container.
FreeResource(m, p) ==
    IF p = NULL THEN m
    ELSE Log([m EXCEPT !.resources = Remove(@, p)], "free_resource", p)

(************************ parser (entry.c, by contract) ********************)

\* The components of a dotted name: the text between the "." separators.
RECURSIVE Split(_, _, _)
Split(s, cur, acc) ==
    IF s = <<>> THEN Append(acc, cur)
    ELSE IF Head(s) = "." THEN Split(Tail(s), <<>>, Append(acc, cur))
    ELSE Split(Tail(s), Append(cur, Head(s)), acc)

Components(s) == Split(s, <<>>, <<>>)

\* A query parses into a non-empty sequence of non-empty components.
WellFormed(s) ==
    /\ s # <<>>
    /\ \A i \in 1..Len(Components(s)) : Components(s)[i] # <<>>

\* xcb_xrm_entry_parse(str, &entry, true): a new parsed query on success, a
\* negative status and no parsed query on failure.
xcb_xrm_entry_parse(m, str, which) ==
    IF WellFormed(str.s)
    THEN LET a == FreshAddr(m) IN
         [m |-> Log([m EXCEPT !.entries = Extend(@, a, Components(str.s))],
                    which, a),
          status |-> SUCCESS, entry |-> a]
    ELSE [m |-> Log(m, which, NULL), status |-> -FAILURE, entry |-> NULL]

\* xcb_xrm_entry_num_components
xcb_xrm_entry_num_components(m, entry) == Len(m.entries[entry])

\* xcb_xrm_entry_free: releases a parsed query; nothing for NULL.
xcb_xrm_entry_free(m, entry) ==
    IF entry = NULL THEN m
    ELSE Log([m EXCEPT !.entries = Remove(@, entry)], "entry_free", entry)

(*********************** matcher (match.c, by contract) ********************)

\* A database entry matches when every component equals the name's or, with
\* a class given, the class's component at the same position.
EntryMatches(e, name, class) ==
    /\ Len(e.comps) = Len(name)
    /\ \A i \in 1..Len(name) :
          \/ e.comps[i] = name[i]
          \/ class # <<>> /\ i <= Len(class) /\ e.comps[i] = class[i]

\* How many components match by name rather than by class.
RECURSIVE NameHits(_, _, _)
NameHits(e, name, i) ==
    IF i > Len(name) THEN 0
    ELSE (IF e.comps[i] = name[i] THEN 1 ELSE 0) + NameHits(e, name, i + 1)

\* The index of the best matching entry (most matches by name, the earlier
\* entry on a tie), or 0 when no entry matches.
FindBest(database, name, class) ==
    LET hits == {i \in 1..Len(database) : EntryMatches(database[i], name, class)}
    IN  IF hits = {} THEN 0
        ELSE CHOOSE i \in hits : \A j \in hits :
                \/ NameHits(database[i], name, 1) > NameHits(database[j], name, 1)
                \/ /\ NameHits(database[i], name, 1) = NameHits(database[j], name, 1)
                   /\ i <= j

\* The outcomes of xcb_xrm_match(database, query_name, query_class, resource):
\* no match leaves the resource alone and is no error; a match stores a copy
\* of the entry's value in resource->value, or fails when the copy cannot be
\* allocated.  Storing through a NULL resource is undefined: the process dies
\* or the call returns either status.
xcb_xrm_match(m, database, query_name, query_class, resource, env) ==
    LET name == m.entries[query_name]
        class == IF query_class = NULL THEN <<>> ELSE m.entries[query_class]
        best == FindBest(database.entries, name, class)
        m1 == LogMatch(m, resource, query_name, query_class)
    IN  IF best = 0
        THEN [m |-> m1, status |-> SUCCESS, crashed |-> FALSE]
        ELSE IF resource = NULL
        THEN [m |-> m1,
              status |-> IF env.ub = "fail" THEN -FAILURE ELSE SUCCESS,
              crashed |-> env.ub = "crash"]
        ELSE IF ~env.strdupOK
        THEN [m |-> m1, status |-> -FAILURE, crashed |-> FALSE]
        ELSE LET t == FreshAddr(m1) IN
             [m |-> [m1 EXCEPT !.texts = Extend(@, t, database.entries[best].value),
                               !.resources[resource] = t],
              status |-> SUCCESS, crashed |-> FALSE]

(************************** xcb_xrm_resource_get ***************************)

\* What a call hands back: the memory, the status, the pointer left in the
\* caller's output slot, and whether the process died inside the call.
Return(m, status, out, crashed) ==
    [m |-> m, status |-> status, out |-> out, crashed |-> crashed]

\* Mutant: the emptiness test is dropped.
NoDatabase_NullOnly(database) == database.null

\* database == NULL || TAILQ_EMPTY(database)
NoDatabase(database) == database.null \/ database.entries = <<>>

\* The test made after calloc: it reads the address of the output slot, not
\* the pointer calloc stored in it.
AllocationFailed(_resource, stored) == _resource = NULL

\* Mutant: only NULL stands for "no class", the empty string is parsed.
ClassGiven_NonNull(res_class) == ~res_class.null

\* res_class != NULL && strlen(res_class) > 0
ClassGiven(res_class) == ~res_class.null /\ strlen(res_class) > 0

\* Mutant: the component counts are not compared.
ArityMismatch_Never(m, query_name, query_class) == FALSE

\* query_class != NULL && the two component counts differ
ArityMismatch(m, query_name, query_class) ==
    /\ query_class # NULL
    /\ xcb_xrm_entry_num_components(m, query_name)
         # xcb_xrm_entry_num_components(m, query_class)

\* Mutant: the label releases the parsed name only.
Done_KeepClass(m, query_name, query_class, result, out) ==
    Return(xcb_xrm_entry_free(m, query_name), result, out, FALSE)

\* The done: label: both parsed queries are released, then result returned.
Done(m, query_name, query_class, result, out) ==
    Return(xcb_xrm_entry_free(xcb_xrm_entry_free(m, query_name), query_class),
           result, out, FALSE)

\* res_name == NULL || xcb_xrm_entry_parse(res_name, &query_name, true) < 0
ParseName(m, res_name) ==
    IF res_name.null
    THEN [m |-> m, status |-> -FAILURE, entry |-> NULL]
    ELSE xcb_xrm_entry_parse(m, res_name, "parse_name")

\* The class is parsed only when given; otherwise query_class stays NULL.
ParseClass(m, res_class) ==
    IF ClassGiven(res_class)
    THEN xcb_xrm_entry_parse(m, res_class, "parse_class")
    ELSE [m |-> m, status |-> SUCCESS, entry |-> NULL]

\* result = xcb_xrm_match(...), then the done: label; a process that died in
\* the matcher never reaches the label.
MatchAndFinish(m, database, query_name, query_class, resource, out, env) ==
    LET r == xcb_xrm_match(m, database, query_name, query_class, resource, env)
    IN  IF r.crashed THEN Return(r.m, r.status, out, TRUE)
        ELSE Done(r.m, query_name, query_class, r.status, out)

xcb_xrm_resource_get(m, database, res_name, res_class, _resource, env) ==
    IF NoDatabase(database) THEN Return(m, -FAILURE, NULL, FALSE)
    ELSE
    LET c == calloc(m, env.callocOK)
        out == c.ptr
    IN  IF AllocationFailed(_resource, out)
        THEN Done(c.m, NULL, NULL, -FAILURE, out)
        ELSE
        LET resource == out
            pn == ParseName(c.m, res_name)
        IN  IF pn.status < 0 THEN Done(pn.m, pn.entry, NULL, -FAILURE, out)
            ELSE
            LET pc == ParseClass(pn.m, res_class)
            IN  IF pc.status < 0 THEN Done(pc.m, pn.entry, pc.entry, -1, out)
                ELSE IF ArityMismatch(pc.m, pn.entry, pc.entry)
                THEN Done(pc.m, pn.entry, pc.entry, -1, out)
                ELSE MatchAndFinish(pc.m, database, pn.entry, pc.entry,
                                    resource, out, env)

(****************************** accessors **********************************)

\* resource->value as a C string: no text at all when the pointer is NULL.
ValueOf(m, resource) ==
    IF m.resources[resource] = NULL THEN NullStr
    ELSE CStr(m.texts[m.resources[resource]])

\* xcb_xrm_resource_value: the value pointer itself, NULL for no resource.
xcb_xrm_resource_value(m, resource) ==
    IF resource = NULL THEN NULL ELSE m.resources[resource]

\* xcb_xrm_resource_value_long
xcb_xrm_resource_value_long(m, resource) ==
    IF resource = NULL THEN LONG_MIN
    ELSE LET conv == str2long(ValueOf(m, resource)) IN
         IF conv.ok THEN conv.val ELSE LONG_MIN

\* Mutant: strcmp in place of strcasecmp.
IsWord_CaseSensitive(value, words) == value.s \in words

\* One of the six signal-word comparisons of xcb_xrm_resource_value_bool.
IsWord(value, words) == \E w \in words : strcasecmpEq(value.s, w)

TrueWords == {<<"t","r","u","e">>, <<"o","n">>, <<"y","e","s">>}
FalseWords == {<<"f","a","l","s","e">>, <<"o","f","f">>, <<"n","o">>}

\* xcb_xrm_resource_value_bool.  With no value text the integer parse fails
\* and strcasecmp is handed NULL, which is undefined: `ub` is what the build
\* makes of it (the process dies, or the call returns true or false).
xcb_xrm_resource_value_bool(m, resource, ub) ==
    IF resource = NULL THEN [result |-> FALSE, crashed |-> FALSE]
    ELSE LET value == ValueOf(m, resource)
             conv == str2long(value)
         IN  IF conv.ok THEN [result |-> conv.val # 0, crashed |-> FALSE]
             ELSE IF value.null
             THEN [result |-> ub = "true", crashed |-> ub = "crash"]
             ELSE IF IsWord(value, TrueWords)
             THEN [result |-> TRUE, crashed |-> FALSE]
             ELSE IF IsWord(value, FalseWords)
             THEN [result |-> FALSE, crashed |-> FALSE]
             ELSE [result |-> FALSE, crashed |-> FALSE]

(*************************** xcb_xrm_resource_free *************************)

\* Mutant: the container is freed, its value text is not.
xcb_xrm_resource_free_KeepText(m, resource) ==
    IF resource = NULL THEN m ELSE FreeResource(m, resource)

xcb_xrm_resource_free(m, resource) ==
    IF resource = NULL THEN m
    ELSE FreeResource(FreeText(m, m.resources[resource]), resource)

(****************************** call inputs ********************************)

NullDb == [null |-> TRUE, entries |-> <<>>]
EmptyDb == [null |-> FALSE, entries |-> <<>>]

\* A loaded database: a: 7, a.b: Off, X.Y: yes
LoadedDb ==
    [null |-> FALSE,
     entries |-> << [comps |-> << <<"a">> >>, value |-> <<"7">>],
                    [comps |-> << <<"a">>, <<"b">> >>, value |-> <<"O","f","f">>],
                    [comps |-> << <<"X">>, <<"Y">> >>, value |-> <<"y","e","s">>] >>]

Databases == {NullDb, EmptyDb, LoadedDb}

\* Name queries: NULL, "", "a", "a.b", "a.", "c.d"
NameSeq == << NullStr, CStr(<<>>), CStr(<<"a">>), CStr(<<"a",".","b">>),
              CStr(<<"a",".">>), CStr(<<"c",".","d">>) >>

\* Class queries: NULL, "", "X.Y", ".X"
ClassSeq == << NullStr, CStr(<<>>), CStr(<<"X",".","Y">>), CStr(<<".","X">>) >>

\* What the environment does during a call: whether calloc and the matcher's
\* copy of the value get memory, and what a store through NULL turns into.
Env(c, d, u) == [callocOK |-> c, strdupOK |-> d, ub |-> u]
EnvSeq == << Env(TRUE, TRUE, "none"), Env(TRUE, FALSE, "none"),
             Env(FALSE, TRUE, "crash"), Env(FALSE, TRUE, "ok"),
             Env(FALSE, TRUE, "fail") >>

Range(seq) == {seq[i] : i \in 1..Len(seq)}
Names == Range(NameSeq)
Classes == Range(ClassSeq)
Envs == Range(EnvSeq)

\* What strcasecmp(NULL, ...) turns into.
BoolUB == <<"crash", "true", "false">>

(***************************** state machine *******************************)

NoCall ==
    [op |-> "none", database |-> NullDb, res_name |-> NullStr,
     res_class |-> NullStr, env |-> Env(TRUE, TRUE, "none"),
     status |-> SUCCESS, out |-> NULL, crashed |-> FALSE, events |-> <<>>,
     arg |-> NULL, value |-> NullStr, rptr |-> NULL, rlong |-> 0,
     rbool |-> FALSE]

Heap == Mem(resources, texts, entries)

\* Room for one call: a container, two parsed queries and a value text.
HasRoom == Cardinality(Live(Heap)) + 4 <= MaxAddr

Init ==
    /\ db \in Databases
    /\ resources = <<>>
    /\ texts = <<>>
    /\ entries = <<>>
    /\ handles = <<>>
    /\ last = NoCall

\* The caller calls xcb_xrm_resource_get(database, res_name, res_class, &slot)
\* and keeps whatever pointer the call left in the slot.
Resolve ==
    \E n \in 1..Len(NameSeq), c \in 1..Len(ClassSeq), e \in 1..Len(EnvSeq) :
      LET res_name == NameSeq[n]
          res_class == ClassSeq[c]
          env == EnvSeq[e]
      IN
        /\ ~last.crashed
        /\ HasRoom
        /\ \E r \in {xcb_xrm_resource_get(Heap, db, res_name, res_class,
                                         OutSlot, env)} :
               /\ resources' = r.m.resources
               /\ texts' = r.m.texts
               /\ entries' = r.m.entries
               /\ handles' = IF r.out = NULL THEN handles
                             ELSE Extend(handles, r.out, r.status)
               /\ last' = [NoCall EXCEPT !.op = "resolve",
                                         !.database = db,
                                         !.res_name = res_name,
                                         !.res_class = res_class,
                                         !.env = env,
                                         !.status = r.status,
                                         !.out = r.out,
                                         !.crashed = r.crashed,
                                         !.events = r.m.events]
        /\ UNCHANGED db

\* The pointers a caller can pass to an accessor or to release: NULL or one
\* it holds and has not released.
Held == DOMAIN handles \cup {NULL}

ArgValue(resource) ==
    IF resource = NULL THEN NullStr ELSE ValueOf(Heap, resource)

ValueText ==
    \E resource \in Held :
        /\ ~last.crashed
        /\ last' = [NoCall EXCEPT !.op = "value", !.arg = resource,
                                  !.value = ArgValue(resource),
                                  !.rptr = xcb_xrm_resource_value(Heap, resource)]
        /\ UNCHANGED <<db, resources, texts, entries, handles>>

ValueLong ==
    \E resource \in Held :
        /\ ~last.crashed
        /\ last' = [NoCall EXCEPT !.op = "value_long", !.arg = resource,
                                  !.value = ArgValue(resource),
                                  !.rlong = xcb_xrm_resource_value_long(Heap, resource)]
        /\ UNCHANGED <<db, resources, texts, entries, handles>>

ValueBool ==
    \E resource \in Held, u \in 1..Len(BoolUB) :
        /\ ~last.crashed
        /\ LET r == xcb_xrm_resource_value_bool(Heap, resource, BoolUB[u])
           IN  last' = [NoCall EXCEPT !.op = "value_bool", !.arg = resource,
                                      !.value = ArgValue(resource),
                                      !.rbool = r.result,
                                      !.crashed = r.crashed]
        /\ UNCHANGED <<db, resources, texts, entries, handles>>

\* The caller releases a pointer it holds (once), or NULL.
Release ==
    \E resource \in Held :
        /\ ~last.crashed
        /\ \E m \in {xcb_xrm_resource_free(Heap, resource)} :
               /\ resources' = m.resources
               /\ texts' = m.texts
               /\ entries' = m.entries
               /\ last' = [NoCall EXCEPT !.op = "release", !.arg = resource,
                                         !.value = ArgValue(resource),
                                         !.rptr = xcb_xrm_resource_value(Heap, resource),
                                         !.status = IF resource = NULL THEN SUCCESS
                                                    ELSE handles[resource],
                                         !.events = m.events]
        /\ handles' = IF resource = NULL THEN handles ELSE Remove(handles, resource)
        /\ UNCHANGED db

Next == Resolve \/ ValueText \/ ValueLong \/ ValueBool \/ Release

Spec == Init /\ [][Next]_vars

(******************* the accessors over arbitrary value texts **************)

\* A database whose entry "a" holds the value text t.
DbWith(t) == [null |-> FALSE,
              entries |-> << [comps |-> << <<"a">> >>, value |-> t] >>]

CoerceAlphabet == {"0", "7", "-", "n", "O"}

RECURSIVE TextsUpTo(_)
TextsUpTo(n) ==
    IF n = 0 THEN {<<>>}
    ELSE TextsUpTo(n - 1) \cup
         {Append(t, c) : t \in {u \in TextsUpTo(n - 1) : Len(u) = n - 1},
                         c \in CoerceAlphabet}

\* The signal words in several cases, near misses of them, and integers at
\* and beyond the range of long.
NotableTexts ==
    {<<"Y","E","S">>, <<"O","f","f">>, <<"m","a","y","b","e">>,
     <<"t","r","u","e">>, <<"T","r","u","E">>, <<"o","n">>, <<"y","e","s">>,
     <<"f","a","l","s","e">>, <<"o","f","f">>, <<"N","o">>,
     <<"y","e","s","s">>, <<"t","r","u">>, <<"1","x">>, <<"+","5">>,
     <<"-","3">>, <<"0","0">>, <<" ","7">>,
     <<"2","1","4","7","4","8","3","6","4","7">>,
     <<"2","1","4","7","4","8","3","6","4","8">>,
     <<"-","2","1","4","7","4","8","3","6","4","8">>,
     <<"-","2","1","4","7","4","8","3","6","4","9">>}

CoerceTexts == TextsUpTo(MaxTextLen) \cup NotableTexts

\* The state after the caller resolved "a" from a database holding t for it.
InitCoerce ==
    \E t \in CoerceTexts :
        \E r \in {xcb_xrm_resource_get(Mem(<<>>, <<>>, <<>>), DbWith(t),
                                       CStr(<<"a">>), NullStr, OutSlot,
                                       Env(TRUE, TRUE, "none"))} :
            /\ db = DbWith(t)
            /\ resources = r.m.resources
            /\ texts = r.m.texts
            /\ entries = r.m.entries
            /\ handles = Extend(<<>>, r.out, r.status)
            /\ last = [NoCall EXCEPT !.op = "resolve", !.database = DbWith(t),
                                     !.res_name = CStr(<<"a">>),
                                     !.status = r.status, !.out = r.out,
                                     !.events = r.m.events]

NextCoerce == ValueText \/ ValueLong \/ ValueBool

SpecCoerce == InitCoerce /\ [][NextCoerce]_vars

(******************************** claims ***********************************)

\* Reading the record of the last call.
Resolved == last.op = "resolve"
Returned == Resolved /\ ~last.crashed
DbMissing == last.database.null \/ last.database.entries = <<>>
Traced(kind) == {i \in 1..Len(last.events) : last.events[i].ev = kind}
ParserCalled == Traced("parse_name") \cup Traced("parse_class") # {}
MatcherCalled == Traced("match") # {}
ClassAbsent(c) == c.null \/ c.s = <<>>
NameParses == ~last.res_name.null /\ WellFormed(last.res_name.s)
ClassParses == ~ClassAbsent(last.res_class) /\ WellFormed(last.res_class.s)
ArityOf(str) == Len(Components(str.s))
A_ == CStr(<<"a">>)
AB_ == CStr(<<"a", ".", "b">>)
XY_ == CStr(<<"X", ".", "Y">>)

\* C1: every call of xcb_xrm_resource_get that returns leaves either a
\* non-negative status with a live Resource in the output slot, or a negative
\* status with NULL in the output slot.
C1_TwoShapes ==
    Returned =>
        \/ last.status >= 0 /\ last.out # NULL /\ last.out \in DOMAIN resources
        \/ last.status < 0 /\ last.out = NULL

\* C2: with a NULL or empty database the call returns a negative status and
\* NULL in the output slot, whatever the name and class, and calls neither
\* the allocator nor the parser nor the matcher.
C2_NoDatabase ==
    (Resolved /\ DbMissing) =>
        /\ ~last.crashed
        /\ last.status < 0
        /\ last.out = NULL
        /\ last.events = <<>>
        /\ resources = <<>> /\ texts = <<>> /\ entries = <<>>

C2_Witness ==
    /\ Resolved
    /\ last.database = EmptyDb
    /\ last.res_name = A_
    /\ last.status < 0

\* C3: a name and a non-empty class that both parse, into different numbers
\* of components, give a negative status and no matcher call; the matcher is
\* called only with the class absent or the two counts equal.
C3_ArityMismatch ==
    /\ (Resolved /\ NameParses /\ ClassParses
          /\ ArityOf(last.res_name) # ArityOf(last.res_class))
        => (~last.crashed /\ last.status < 0 /\ ~MatcherCalled)
    /\ (Resolved /\ MatcherCalled)
        => \/ ClassAbsent(last.res_class)
           \/ ArityOf(last.res_name) = ArityOf(last.res_class)

C3_Witness ==
    /\ Resolved
    /\ ~DbMissing
    /\ last.env.callocOK
    /\ last.res_name = A_
    /\ last.res_class = XY_
    /\ last.status < 0
    /\ Traced("parse_class") # {}

\* C4: with a non-empty database and a well-formed query of matching arity
\* for which the matcher, once called, finds no entry, the call returns a
\* non-negative status and a live Resource whose value is absent.
C4_NotFoundIsNoError ==
    (/\ Returned
     /\ ~DbMissing
     /\ MatcherCalled
     /\ NameParses
     /\ ClassAbsent(last.res_class)
          \/ (ClassParses /\ ArityOf(last.res_name) = ArityOf(last.res_class))
     /\ FindBest(last.database.entries, Components(last.res_name.s),
                 IF ClassAbsent(last.res_class) THEN <<>>
                 ELSE Components(last.res_class.s)) = 0)
    => /\ last.status >= 0
       /\ last.out # NULL
       /\ last.out \in DOMAIN resources
       /\ resources[last.out] = NULL

\* C5: the three accessors return a defined result for every pointer a
\* caller can hold; for NULL and for a Resource without a value the results
\* are NULL, LONG_MIN and false.
C5_AccessorsTotal ==
    /\ last.op \in {"value", "value_long", "value_bool"} => ~last.crashed
    /\ (last.op = "value" /\ last.value.null) => last.rptr = NULL
    /\ (last.op = "value_long" /\ last.value.null) => last.rlong = LONG_MIN
    /\ (last.op = "value_bool" /\ last.value.null) => last.rbool = FALSE

\* C9: when calloc fails (database present) the call returns a negative
\* status at once: the parser and the matcher are not called.
C9_AllocFailureTerminal ==
    (Resolved /\ ~DbMissing /\ ~last.env.callocOK) =>
        /\ ~last.crashed
        /\ last.status < 0
        /\ ~ParserCalled
        /\ ~MatcherCalled

FoldCase(t) == [i \in 1..Len(t) |-> tolower(t[i])]
Affirmative(t) == FoldCase(t) \in {<<"t","r","u","e">>, <<"o","n">>, <<"y","e","s">>}
Negative(t) == FoldCase(t) \in {<<"f","a","l","s","e">>, <<"o","f","f">>, <<"n","o">>}
OrderedRule(t) ==
    IF str2long(CStr(t)).ok THEN str2long(CStr(t)).val # 0
    ELSE IF Affirmative(t) THEN TRUE
    ELSE IF Negative(t) THEN FALSE
    ELSE FALSE

SameOutcome(r1, r2) ==
    /\ r1.status = r2.status
    /\ r1.out = r2.out
    /\ r1.crashed = r2.crashed
    /\ r1.m = r2.m

\* C7: a NULL class and an empty class both mean "no class": the class is not
\* parsed, the matcher gets no class, and from the same state with the same
\* name the two calls end alike.  A non-empty class that does not parse gives
\* a negative status and no matcher call.
C7_AbsentClass ==
    /\ (Resolved /\ ClassAbsent(last.res_class)) =>
          /\ Traced("parse_class") = {}
          /\ \A i \in Traced("match") : last.events[i].class = NULL
    /\ (~last.crashed /\ HasRoom) =>
          \A res_name \in Names, env \in Envs :
              SameOutcome(
                  xcb_xrm_resource_get(Heap, db, res_name, NullStr, OutSlot, env),
                  xcb_xrm_resource_get(Heap, db, res_name, CStr(<<>>), OutSlot, env))
    /\ (Resolved /\ ~DbMissing /\ ~ClassAbsent(last.res_class)
          /\ ~WellFormed(last.res_class.s))
        => (~last.crashed /\ last.status < 0 /\ ~MatcherCalled)

C7_Witness ==
    /\ Resolved
    /\ last.res_class = CStr(<<>>)
    /\ last.res_name = AB_
    /\ last.status >= 0
    /\ last.out # NULL
    /\ last.out \in DOMAIN resources
    /\ resources[last.out] # NULL
    /\ texts[resources[last.out]] = <<"O","f","f">>

ReleaseFrees ==
    /\ (last.op = "release" /\ last.arg # NULL) =>
          /\ last.events =
                (IF last.rptr = NULL THEN <<>>
                 ELSE << Event("free_text", last.rptr, NULL, NULL) >>)
                \o << Event("free_resource", last.arg, NULL, NULL) >>
          /\ last.arg \notin DOMAIN resources
          /\ last.rptr # NULL => last.rptr \notin DOMAIN texts
    /\ (last.op = "release" /\ last.arg = NULL) => last.events = <<>>
    /\ \A a, b \in DOMAIN resources :
          (a # b /\ resources[a] # NULL) => resources[a] # resources[b]
    /\ \A a \in DOMAIN resources :
          resources[a] # NULL => resources[a] \in DOMAIN texts
    /\ \A t \in DOMAIN texts : \E a \in DOMAIN resources : resources[a] = t

ReleaseNullKeepsState ==
    (last'.op = "release" /\ last'.arg = NULL) =>
        UNCHANGED <<db, resources, texts, entries, handles>>

\* C8: releasing a Resource frees first its value text, then the container,
\* and neither stays allocated; no two live Resources share a text and no
\* text outlives its Resource; releasing NULL frees nothing and changes
\* nothing.
C8_Release == []ReleaseFrees /\ [][ReleaseNullKeepsState]_vars

C8_Witness ==
    /\ last.op = "release"
    /\ last.status >= 0
    /\ last.rptr # NULL
    /\ \E a \in DOMAIN resources : resources[a] # NULL

Parsed == {i \in Traced("parse_name") \cup Traced("parse_class") :
              last.events[i].a # NULL}

\* C10: on every return of xcb_xrm_resource_get each parsed query the parser
\* produced in the call has been released exactly once, none is live after
\* the call, and none is released before the matcher's call.
C10_ParsedQueriesReleased ==
    /\ ~last.crashed => entries = <<>>
    /\ Returned =>
          /\ \A i \in Parsed :
                Cardinality({j \in Traced("entry_free") :
                                last.events[j].a = last.events[i].a /\ j > i}) = 1
          /\ \A j \in Traced("entry_free") :
                /\ \E i \in Parsed : last.events[i].a = last.events[j].a /\ i < j
                /\ \A k \in Traced("match") : k < j
          /\ Cardinality(Traced("entry_free")) = Cardinality(Parsed)

C10_Witness ==
    /\ Returned
    /\ Cardinality(Parsed) = 2
    /\ MatcherCalled
    /\ Cardinality(Traced("entry_free")) = 2

====
